---- MODULE Spec2Model ----
(***************************************************************************)
(* Model of the self-improvement pipeline of self-improving-agent:         *)
(*   - PromptManager (storage/prompts.py): versioned prompt files plus the *)
(*     current.yaml symlink, one directory per agent;                      *)
(*   - AnalyzerAgent.analyze and VersionerAgent.improve (agents/*.py):     *)
(*     the tool-use loops around the reasoning backend;                    *)
(*   - ImprovementOrchestrator.run (core/orchestrator.py): the sequencing  *)
(*     of both behind the confidence gate, with its event trail.           *)
(* Confidences are modelled in hundredths (0.6 is 60).                     *)
(***************************************************************************)
EXTENDS Integers, Sequences, FiniteSets, TLC

(***************************************************************************)
(* Bounds of the model.                                                    *)
(***************************************************************************)
\* create_version is not started once the next number would exceed this
MaxVersion == 3
\* the seconds of the wall clock are 0..MaxClock
MaxClock == 1
\* direct calls of PromptManager.create_version and rollback made in total
MaxApiCalls == 4
\* /rollback commands the cli user gives in total
MaxCliCalls == 1
\* calls of ImprovementOrchestrator.run made in total
MaxRuns == 1
\* backend calls one tool loop makes before the model stops following it
MaxBackendCalls == 11
\* readings of the clock of the planning module: 0..MaxTick
MaxTick == 3
\* coroutines that call the TaskManager of one store
MaxCallers == 2
\* ManualImprovementOrchestrator.run calls in progress at a time
MaxManualRuns == 2

(***************************************************************************)
(* Constants of the program.                                               *)
(***************************************************************************)
\* VersionerAgent.MAX_PROMPT_LENGTH
MAX_PROMPT_LENGTH == 16000

(***************************************************************************)
(* Agent identities and prompt texts.                                      *)
(***************************************************************************)
\* the directories PromptManager._ensure_directories creates
Agents == {"main_agent", "analyzer", "versioner"}

\* Prompt texts, described by what validate_prompt looks at: the length, the
\* length after strip(), the presence of "{{" or "}}", of "##" or "**".
PromptOk    == [id |-> "ok",    len |-> 120,   stripped |-> 120, tmpl |-> FALSE, sect |-> FALSE]
PromptAlt   == [id |-> "alt",   len |-> 800,   stripped |-> 800, tmpl |-> FALSE, sect |-> TRUE]
PromptEmpty == [id |-> "empty", len |-> 0,     stripped |-> 0,   tmpl |-> FALSE, sect |-> FALSE]
PromptBlank == [id |-> "blank", len |-> 3,     stripped |-> 0,   tmpl |-> FALSE, sect |-> FALSE]
PromptTmpl  == [id |-> "tmpl",  len |-> 90,    stripped |-> 90,  tmpl |-> TRUE,  sect |-> TRUE]
PromptFlat  == [id |-> "flat",  len |-> 600,   stripped |-> 600, tmpl |-> FALSE, sect |-> FALSE]
PromptLong  == [id |-> "long",  len |-> 20001, stripped |-> 20001, tmpl |-> FALSE, sect |-> TRUE]

\* the prompt of the version file an installation ships for each agent
SeedPrompt == PromptOk

\* prompts a caller of PromptManager.create_version passes directly
ApiPrompts == {PromptAlt}

\* "no file": the value of a missing symlink and of a parent_version of None
NoFile == [version |-> 0, ts |-> 0]
None == 0

VARIABLES
    files,      \* files[a]: the version files of data/prompts/<a>/
    link,       \* link[a]: the file name current.yaml points to, or NoFile
    now,        \* the second of the wall clock at the last create_version
    op,         \* the PromptManager call in progress
    last,       \* the last completed PromptManager call and what it returned
    issued,     \* issued[a]: the numbers create_version has returned
    known,      \* the agents whose current.yaml was created at least once
    apiCalls,   \* the number of direct PromptManager calls made so far
    config,     \* config.thresholds, the shared configuration object
    manual,     \* the ManualImprovementOrchestrator.run calls in progress
    task,       \* MainAgent._improvement_task and the coroutine it runs
    run,        \* the ImprovementOrchestrator.run call: position and locals
    events,     \* what that call has written to the log sink, in order
    runs,       \* the number of ImprovementOrchestrator.run calls started
    validation, \* a validate_prompt call: the prompt and what it returned
    plan_task,  \* a planning Task object in memory
    restored,   \* what Task.from_dict made of its to_dict()
    clock,      \* datetime.now of the planning module
    tasks_file, \* the lines of data/tasks/tasks.jsonl
    mgr_calls   \* the TaskManager calls in progress

storeVars == <<files, link, now, op, last, issued, known, apiCalls>>
pipeVars == <<config, manual, task, run, events, runs>>
planVars == <<plan_task, restored, clock, tasks_file, mgr_calls>>
sideVars == <<validation, planVars>>
vars == <<files, link, now, op, last, issued, known, apiCalls,
          config, manual, task, run, events, runs, validation,
          plan_task, restored, clock, tasks_file, mgr_calls>>

(***************************************************************************)
(* PromptManager: helpers.                                                 *)
(***************************************************************************)
\* the name of a version file: v{version:03d}_{timestamp}.yaml
FileName(f) == [version |-> f.version, ts |-> f.ts]

\* the file of directory a with the given name (the name is the key)
FileAt(a, name) == CHOOSE f \in files[a] : FileName(f) = name

HasFile(a, name) == \E f \in files[a] : FileName(f) = name

\* (a glob that also lists the files of later versions)
GlobFrom(a, version) == {f \in files[a] : f.version >= version}

\* agent_path.glob(f"v{version:03d}_*.yaml")
Glob(a, version) == {f \in files[a] : f.version = version}

\* PromptManager.current_version: 0 without current.yaml, else its "version"
current_version(a) ==
    IF link[a] = NoFile \/ ~HasFile(a, link[a]) THEN 0
    ELSE FileAt(a, link[a]).version

\* PromptManager.get_current: raises FileNotFoundError without current.yaml
CanGetCurrent(a) == link[a] # NoFile /\ HasFile(a, link[a])

get_current(a) == FileAt(a, link[a]).prompt

\* open(new_path, "w"): creates the file or truncates the one of that name
WriteFile(dir, f) == {g \in dir : FileName(g) # FileName(f)} \cup {f}

\* no PromptManager call in progress
OpIdle == [pc |-> "idle", kind |-> "none", agent |-> "main_agent",
           caller |-> "api", prompt |-> PromptEmpty, current_version |-> 0,
           new_version |-> 0, name |-> NoFile, target |-> 0,
           preFiles |-> {}, preLink |-> NoFile]

\* no PromptManager call has completed yet
NoCall == [kind |-> "none", ret |-> 0, found |-> FALSE, fresh |-> TRUE]

\* the record of a completed call: what it returned and what it started from
\* (found: a file of the target version existed; fresh: the number returned
\* by create_version is above every number issued before for that agent)
Completed(o, ret) ==
    [kind |-> o.kind, ret |-> ret,
     found |-> {f \in o.preFiles : f.version = o.target} # {},
     fresh |-> o.kind = "create" => \A n \in issued[o.agent] : n < o.new_version]

(***************************************************************************)
(* PromptManager.create_version, one action per file-system step.          *)
(***************************************************************************)
\* lines 95-118: read the current version, choose number and file name;
\* datetime.utcnow() is the second of the last file name or a later one
BeginCreate(a, prompt, caller) ==
    /\ op.pc = "idle"
    /\ current_version(a) + 1 <= MaxVersion
    /\ \E t \in now..MaxClock :
          /\ now' = t
          /\ op' = [pc |-> "open", kind |-> "create", agent |-> a,
                    caller |-> caller, prompt |-> prompt,
                    current_version |-> current_version(a),
                    new_version |-> current_version(a) + 1,
                    name |-> [version |-> current_version(a) + 1, ts |-> t],
                    target |-> 0,
                    preFiles |-> files[a], preLink |-> link[a]]

\* line 122: open(new_path, "w")
CreateOpen ==
    /\ op.pc = "open"
    /\ files' = [files EXCEPT ![op.agent] =
           WriteFile(@, [version |-> op.name.version, ts |-> op.name.ts,
                         parent_version |-> None, prompt |-> PromptEmpty,
                         complete |-> FALSE])]
    /\ op' = [op EXCEPT !.pc = "dump"]
    /\ UNCHANGED <<link, now, last, issued, known, apiCalls, pipeVars, sideVars>>

\* lines 123-129: yaml.dump and close
CreateDump ==
    /\ op.pc = "dump"
    /\ files' = [files EXCEPT ![op.agent] =
           WriteFile(@, [version |-> op.new_version, ts |-> op.name.ts,
                         parent_version |->
                             IF op.current_version > 0 THEN op.current_version
                             ELSE None,
                         prompt |-> op.prompt,
                         complete |-> TRUE])]
    /\ op' = [op EXCEPT !.pc = "unlink"]
    /\ UNCHANGED <<link, now, last, issued, known, apiCalls, pipeVars, sideVars>>

(***************************************************************************)
(* PromptManager._update_current_link.                                     *)
(***************************************************************************)
\* lines 142-143: remove the existing link
LinkUnlink ==
    /\ op.pc = "unlink"
    /\ link' = [link EXCEPT ![op.agent] = NoFile]
    /\ op' = [op EXCEPT !.pc = "symlink"]
    /\ UNCHANGED <<files, now, last, issued, known, apiCalls, pipeVars, sideVars>>

\* line 146: current_link.symlink_to(target_filename)
LinkSymlink ==
    /\ op.pc = "symlink"
    /\ link' = [link EXCEPT ![op.agent] = op.name]
    /\ known' = known \cup {op.agent}
    /\ op' = [op EXCEPT !.pc = "return"]
    /\ UNCHANGED <<files, now, last, issued, apiCalls, pipeVars, sideVars>>

\* line 134: return new_version
EndCreate ==
    /\ op.pc = "return"
    /\ op.kind = "create"
    /\ op.caller = "api"
    /\ issued' = [issued EXCEPT ![op.agent] = @ \cup {op.new_version}]
    /\ last' = Completed(op, op.new_version)
    /\ op' = OpIdle
    /\ UNCHANGED <<files, link, now, known, apiCalls, pipeVars, sideVars>>

(***************************************************************************)
(* PromptManager.rollback.                                                 *)
(***************************************************************************)
\* a rollback that removes current.yaml before it looks for the target:
\* C11 must tell it from the code's
RollbackNotFoundUnlinked(a, target) ==
    /\ op.pc = "idle"
    /\ Glob(a, target) = {}
    /\ link' = [link EXCEPT ![a] = NoFile]
    /\ last' = Completed([OpIdle EXCEPT !.kind = "rollback", !.agent = a,
                                        !.target = target,
                                        !.preFiles = files[a]], FALSE)
    /\ UNCHANGED <<files, now, op, issued, known, pipeVars, sideVars>>

\* lines 160-165: no file of that version, return False
RollbackNotFound(a, target) ==
    /\ op.pc = "idle"
    /\ Glob(a, target) = {}
    /\ last' = Completed([OpIdle EXCEPT !.kind = "rollback", !.agent = a,
                                        !.target = target,
                                        !.preFiles = files[a]], FALSE)
    /\ UNCHANGED <<files, link, now, op, issued, known, pipeVars, sideVars>>

\* lines 163-168: version_files[0], in the order the directory lists them
BeginRollback(a, target) ==
    /\ op.pc = "idle"
    /\ \E f \in Glob(a, target) :
           op' = [OpIdle EXCEPT
                     !.pc = "unlink", !.kind = "rollback", !.agent = a,
                     !.target = target, !.name = FileName(f),
                     !.preFiles = files[a], !.preLink = link[a]]

\* line 173: return True
EndRollback ==
    /\ op.pc = "return"
    /\ op.kind = "rollback"
    /\ last' = Completed(op, TRUE)
    /\ op' = OpIdle
    /\ UNCHANGED <<files, link, now, issued, known, apiCalls, pipeVars, sideVars>>

(***************************************************************************)
(* Callers of the store and the clock.                                     *)
(***************************************************************************)
\* a direct call PromptManager.create_version(agent, prompt, ...)
ApiCreate ==
    /\ apiCalls < MaxApiCalls
    /\ \E a \in Agents, p \in ApiPrompts : BeginCreate(a, p, "api")
    /\ apiCalls' = apiCalls + 1
    /\ UNCHANGED <<files, link, last, issued, known, pipeVars, sideVars>>

\* a direct call PromptManager.rollback(agent, target, reason) (cli /rollback)
ApiRollback ==
    /\ apiCalls < MaxApiCalls
    /\ apiCalls' = apiCalls + 1
    /\ \E a \in Agents, target \in 0..MaxVersion :
        \/ RollbackNotFound(a, target)
        \/ /\ BeginRollback(a, target)
           /\ UNCHANGED <<files, link, now, last, issued, known, pipeVars, sideVars>>

\* the run call is not running: it has not started, has ended, or waits in
\* an await (log_improvement_event of the orchestrator, the log search of
\* the analyzer's search_logs); the versioner's loop has no await
Suspended ==
    \/ run.pc \in {"idle", "done", "raised", "improvement_started",
                   "analysis_started", "analysis_completed",
                   "improvement_skipped", "versioning_started",
                   "version_created", "improvement_completed",
                   "improvement_failed"}
    \/ /\ run.pc = "analyze"
       /\ \E i \in 1..Len(run.results) : run.results[i].content.status = "results"

\* the cli command /rollback N: PromptManager.rollback("main_agent", N, ...)
CliRollback ==
    /\ apiCalls < MaxCliCalls
    /\ Suspended
    /\ apiCalls' = apiCalls + 1
    /\ \E target \in 0..MaxVersion :
        \/ RollbackNotFound("main_agent", target)
        \/ /\ BeginRollback("main_agent", target)
           /\ UNCHANGED <<files, link, now, last, issued, known, pipeVars, sideVars>>

\* the version file v001 an installation ships, and its name
SeedFile == [version |-> 1, ts |-> 0, parent_version |-> None,
             prompt |-> SeedPrompt, complete |-> TRUE]

\* the version file v002 an earlier improvement of main_agent has left
ImprovedFile == [version |-> 2, ts |-> 0, parent_version |-> 1,
                 prompt |-> PromptAlt, complete |-> TRUE]

\* PromptManager.__init__ creates the directories and keeps what they hold:
\* a directory is empty or holds the shipped v001 with current.yaml pointing
\* to it; that of main_agent may hold v002 of an earlier improvement as
\* current version
StoreInit ==
    /\ \E seeded \in SUBSET Agents :
       \E improved \in SUBSET (seeded \cap {"main_agent"}) :
          /\ files = [a \in Agents |->
                        IF a \in improved THEN {SeedFile, ImprovedFile}
                        ELSE IF a \in seeded THEN {SeedFile} ELSE {}]
          /\ link = [a \in Agents |->
                       IF a \in improved THEN FileName(ImprovedFile)
                       ELSE IF a \in seeded THEN FileName(SeedFile)
                       ELSE NoFile]
          /\ issued = [a \in Agents |->
                         IF a \in improved THEN {1, 2}
                         ELSE IF a \in seeded THEN {1} ELSE {}]
          /\ known = seeded
    /\ now = 0
    /\ op = OpIdle
    /\ last = NoCall
    /\ apiCalls = 0


(***************************************************************************)
(* Data of the improvement pipeline.  Confidences are in hundredths.       *)
(***************************************************************************)
\* Feedback objects (core/feedback.py): one detected, one explicit
Feedbacks ==
    {[type |-> "negative", category |-> "verbosity",
      raw_text |-> "too long", confidence |-> 85],
     [type |-> "positive", category |-> "explicit",
      raw_text |-> "be brief", confidence |-> 100]}

\* the target_agent of run; MainAgent._trigger_improvement passes main_agent
Targets == {"main_agent"}

\* a key the model left out of a tool input
Absent == "<absent>"
AbsentNumber == -999

\* inputs of submit_analysis the backend may send (the last with the
\* confidences -0.2 and 1.5); a text is the sequence of the parts an
\* f-string joins
AnalysisPayloads ==
    {[problems |-> <<[id |-> "P1", description |-> <<"verbose answers">>],
                     [id |-> Absent, description |-> <<"unclear wording">>]>>,
      hypotheses |-> <<[id |-> "H1", suggestion |-> <<"shorten">>,
                        confidence |-> 90]>>,
      overall_confidence |-> 90],
     [problems |-> <<[id |-> "P1", description |-> <<"verbose answers">>]>>,
      hypotheses |-> <<[id |-> Absent, suggestion |-> <<"shorten">>,
                        confidence |-> AbsentNumber]>>,
      overall_confidence |-> 40],
     [problems |-> <<>>, hypotheses |-> <<>>,
      overall_confidence |-> 60],
     [problems |-> <<>>,
      hypotheses |-> <<[id |-> "H1", suggestion |-> <<"shorten">>,
                        confidence |-> 70],
                       [id |-> "H2", suggestion |-> <<"add headers">>,
                        confidence |-> 20]>>,
      overall_confidence |-> AbsentNumber],
     [problems |-> <<>>,
      hypotheses |-> <<[id |-> "H1", suggestion |-> <<"shorten">>,
                        confidence |-> -20]>>,
      overall_confidence |-> 150]}

NoPayload == [problems |-> <<>>, hypotheses |-> <<>>,
              overall_confidence |-> AbsentNumber]

\* a tool_use block of a response; its id is its position in the response
Block(name) ==
    [name |-> name, input |-> NoPayload, prompt |-> PromptEmpty,
     agent_name |-> "main_agent", rationale |-> "text",
     query |-> "text", version_a |-> 1, version_b |-> 1]

\* a search_logs request, with or without the required "query"
SearchLogs(q) == [Block("search_logs") EXCEPT !.query = q]

\* a get_prompt_diff request for two versions of main_agent
PromptDiff(va, vb) ==
    [Block("get_prompt_diff") EXCEPT !.version_a = va, !.version_b = vb]

Submit(i) == [Block("submit_analysis") EXCEPT !.input = i]

\* response.content of the responses with stop_reason "tool_use" the
\* backend may give the analyzer: a tool, an unknown tool, two tools, the
\* terminal tool alone, after another tool, before one, and twice
AnalyzerContents ==
    {<<Block("search_logs")>>, <<Block("bogus_tool")>>,
     <<Block("bogus_tool"), Block("search_logs")>>,
     <<SearchLogs(Absent)>>}
    \cup {<<SearchLogs(Absent), Submit(i)>> :
          i \in {k \in AnalysisPayloads : k.overall_confidence = 90}}
    \cup {<<Submit(i)>> : i \in AnalysisPayloads}
    \cup {<<Block("search_logs"), Submit(i)>> : i \in AnalysisPayloads}
    \cup {<<Submit(i), Submit(j)>> :
          i \in {k \in AnalysisPayloads : k.overall_confidence = 40},
          j \in {k \in AnalysisPayloads : k.overall_confidence = 90}}
    \cup {<<Submit(i), Submit(j)>> :
          i \in {k \in AnalysisPayloads : k.overall_confidence = 90},
          j \in {k \in AnalysisPayloads : k.overall_confidence = 40}}

\* create_prompt_version inputs the backend may send: a valid and an invalid
\* new_prompt, another agent_name than the target, a rationale of null
CreateBlock(a, q, r) ==
    [Block("create_prompt_version") EXCEPT
        !.agent_name = a, !.prompt = q, !.rationale = r]

Validate(q) == [Block("validate_prompt") EXCEPT !.prompt = q]

CreateBlocks ==
    {CreateBlock("main_agent", PromptAlt, "text"),
     CreateBlock("main_agent", PromptEmpty, "text"),
     CreateBlock("versioner", PromptAlt, "text"),
     CreateBlock("main_agent", PromptAlt, "null")}

\* response.content of the responses with stop_reason "tool_use" the
\* backend may give the versioner
VersionerContents ==
    {<<Block("bogus_tool")>>,
     <<Validate(PromptAlt)>>,
     <<Validate(PromptEmpty), Block("bogus_tool")>>,
     <<Validate(PromptBlank), Validate(PromptTmpl)>>,
     <<Validate(PromptFlat), Validate(PromptLong)>>,
     <<PromptDiff(1, 1)>>,
     <<PromptDiff(1, MaxVersion + 1)>>,
     <<PromptDiff(1, MaxVersion + 1),
       CreateBlock("main_agent", PromptAlt, "text")>>}
    \cup {<<b>> : b \in CreateBlocks}
    \cup {<<Validate(b.prompt), b>> : b \in CreateBlocks}
    \cup {<<CreateBlock("main_agent", PromptEmpty, "text"),
            CreateBlock("main_agent", PromptAlt, "text")>>,
          <<CreateBlock("main_agent", PromptAlt, "text"),
            CreateBlock("main_agent", PromptEmpty, "text")>>}

\* exceptions: the class and str(e)
Exc(type, msg) == [type |-> type, msg |-> msg]
NoExc == Exc("none", "")
LogError == Exc("OSError", "cannot write log")
StoreError == Exc("OSError", "cannot read current.yaml")
BackendError == Exc("APIError", "backend call failed")
NoPromptFound == Exc("FileNotFoundError", "No prompt found for agent")
\* input_data["query"] of a search_logs request without that key
MissingQuery == Exc("KeyError", "'query'")
\* PromptManager.get_version_data for a version without file
VersionNotFound == Exc("FileNotFoundError", "Version not found for agent")
RationaleError == Exc("TypeError", "'NoneType' object is not subscriptable")
\* agents/versioner.py:386, the class VersionerAgent.improve raises
NoVersionCreated ==
    Exc("agents.versioner.VersioningError",
        "Versioner did not create a new version.")

\* core/orchestrator.py:150: "except VersioningError" names the class of
\* core/orchestrator.py:17, which is not the class of agents/versioner.py:386
CaughtAsVersioningError(e) == e.type = "core.orchestrator.VersioningError"

NoAnalysis == [problems |-> <<>>, hypotheses |-> <<>>, confidence_score |-> 0]
NoVersion == [version |-> 0, content |-> PromptEmpty, rationale |-> "text"]
NoResult == [success |-> FALSE, old_version |-> 0, new_version |-> None,
             error |-> "<no result>"]

\* ImprovementResult (core/orchestrator.py:22)
ImprovementResult(success, old_version, new_version, error) ==
    [success |-> success, old_version |-> old_version,
     new_version |-> new_version, error |-> error]

\* config.thresholds as loaded: ThresholdConfig (config.py)
ThresholdConfig == [improvement_confidence |-> 60, feedback_confidence |-> 80]

\* Feedback (core/feedback.py:14); confidences are hundredths
Feedback(type, category, raw_text, confidence) ==
    [type |-> type, category |-> category, raw_text |-> raw_text,
     confidence |-> confidence]

\* detect returned None
NoFeedback == Feedback("<none>", "<none>", "", 0)

\* what the feedback model answered: no usable JSON (or the call raised),
\* or the JSON object data, its missing keys Absent
NoJson == [json |-> FALSE, is_feedback |-> FALSE, type |-> Absent,
           category |-> Absent, confidence |-> AbsentNumber]
Json(is_feedback, type, category, confidence) ==
    [json |-> TRUE, is_feedback |-> is_feedback, type |-> type,
     category |-> category, confidence |-> confidence]

\* a user message, described by what detect looks at: whether a negative
\* and a positive pattern match, the category _detect_category finds,
\* len(message.split()), whether the detector has a client, and what the
\* feedback model answers about it
Message(raw_text, negative_match, positive_match, category, words, client, llm) ==
    [raw_text |-> raw_text, negative_match |-> negative_match,
     positive_match |-> positive_match, category |-> category,
     words |-> words, client |-> client, llm |-> llm]

Messages ==
    {Message("too long", TRUE, FALSE, "verbosity", 2, TRUE, NoJson),
     Message("thanks", FALSE, TRUE, "general", 1, TRUE, NoJson),
     Message("good but wrong", TRUE, TRUE, "accuracy", 3, TRUE,
             Json(TRUE, "negative", "accuracy", 50)),
     Message("good but too short", TRUE, TRUE, "verbosity", 4, FALSE,
             Json(TRUE, "negative", "verbosity", 90)),
     Message("be brief", FALSE, FALSE, "verbosity", 2, TRUE,
             Json(TRUE, "positive", "explicit", 100)),
     Message("hm", FALSE, FALSE, "general", 1, TRUE,
             Json(TRUE, Absent, Absent, AbsentNumber)),
     Message("what is a symlink", FALSE, FALSE, "general", 4, TRUE,
             Json(FALSE, "neutral", "general", 90)),
     Message("why", FALSE, FALSE, "general", 1, TRUE, NoJson),
     Message("a question of twenty words", FALSE, FALSE, "general", 20, TRUE,
             Json(TRUE, "negative", "general", 95))}

\* FeedbackDetector._llm_detect, lines 203-246
_llm_detect(message) ==
    IF ~message.client \/ ~message.llm.json \/ ~message.llm.is_feedback
    THEN NoFeedback
    ELSE Feedback(IF message.llm.type = Absent THEN "neutral"
                                                ELSE message.llm.type,
                  IF message.llm.category = Absent THEN "general"
                                                    ELSE message.llm.category,
                  message.raw_text,
                  IF message.llm.confidence = AbsentNumber
                  THEN 50 ELSE message.llm.confidence)

\* FeedbackDetector.detect, lines 141-173
detect(message) ==
    IF message.negative_match /\ ~message.positive_match
    THEN Feedback("negative", message.category, message.raw_text, 85)
    ELSE IF message.positive_match /\ ~message.negative_match
    THEN Feedback("positive", message.category, message.raw_text, 80)
    ELSE IF message.words < 15 /\ message.client
    THEN _llm_detect(message)
    ELSE NoFeedback

\* Feedback.should_trigger_improvement, with a strict comparison
should_trigger_above(feedback) ==
    \/ feedback.type = "negative"
          /\ feedback.confidence > config.feedback_confidence
    \/ feedback.category = "explicit"

\* Feedback.should_trigger_improvement, lines 22-31
should_trigger_improvement(feedback) ==
    \/ feedback.type = "negative"
          /\ feedback.confidence >= config.feedback_confidence
    \/ feedback.category = "explicit"

\* no ManualImprovementOrchestrator.run call in progress
NoManualRun == [pc |-> "idle", original_threshold |-> 0]

\* the ManualImprovementOrchestrator.run calls that may overlap
ManualRuns == 1..MaxManualRuns

\* no run call in progress
RunIdle ==
    [pc |-> "idle", target |-> "main_agent",
     feedback |-> CHOOSE f \in Feedbacks : TRUE,
     old_version |-> 0,
     calls |-> 0,                \* backend calls of the tool loop in progress
     results |-> <<>>,           \* the tool results appended last
     analysis |-> NoAnalysis,    \* what Analyzer.analyze returned
     fallback |-> FALSE,         \* ... from _create_fallback_result
     gate |-> AbsentNumber,      \* the threshold the gate compared with
     improves |-> 0,             \* invocations of Versioner.improve
     saved |-> Block("none"),    \* the block handed to _save_version
     creates |-> 0,              \* create_version calls made for this run
     new_version |-> NoVersion,  \* what Versioner.improve returned
     exc |-> NoExc,              \* the exception being handled or raised
     result |-> NoResult]        \* what run returned

(***************************************************************************)
(* Tools of the two agents.                                                *)
(***************************************************************************)
\* a tool result before json.dumps: the keys the handlers return
ToolResult(status, error, valid, issues) ==
    [status |-> status, error |-> error, valid |-> valid, issues |-> issues]

\* the issue list of validate_prompt, were the maximum length itself too long
ValidateIssuesFrom(q) ==
    (IF q.len >= MAX_PROMPT_LENGTH THEN <<"Prompt too long">> ELSE <<>>)
    \o (IF q.stripped = 0 THEN <<"Prompt is empty">> ELSE <<>>)
    \o (IF q.tmpl THEN <<"Prompt contains template syntax">> ELSE <<>>)
    \o (IF q.len > 500 /\ ~q.sect
        THEN <<"Long prompt without clear sections">> ELSE <<>>)

\* VersionerAgent._execute_tool, name = "validate_prompt": the issue list
ValidateIssues(q) ==
    (IF q.len > MAX_PROMPT_LENGTH THEN <<"Prompt too long">> ELSE <<>>)
    \o (IF q.stripped = 0 THEN <<"Prompt is empty">> ELSE <<>>)
    \o (IF q.tmpl THEN <<"Prompt contains template syntax">> ELSE <<>>)
    \o (IF q.len > 500 /\ ~q.sect
        THEN <<"Long prompt without clear sections">> ELSE <<>>)

Valid(q) == Len(ValidateIssues(q)) = 0

\* VersionerAgent._execute_tool, name = "get_prompt_diff": get_diff reads
\* both versions with get_version_data, which raises when one has no file
VersionerToolRaises(b) ==
    /\ b.name = "get_prompt_diff"
    /\ (Glob(b.agent_name, b.version_a) = {}
          \/ Glob(b.agent_name, b.version_b) = {})

\* VersionerAgent._execute_tool
VersionerTool(b) ==
    IF b.name = "get_prompt_diff"
    THEN ToolResult("diff", "", TRUE, <<>>)
    ELSE IF b.name = "validate_prompt"
    THEN ToolResult("", "", Valid(b.prompt), ValidateIssues(b.prompt))
    ELSE IF b.name = "create_prompt_version"
    THEN IF ~Valid(b.prompt)
         THEN ToolResult("", "Validation failed", FALSE,
                         ValidateIssues(b.prompt))
         ELSE ToolResult("version_created", "", TRUE, <<>>)
    ELSE ToolResult("", "Unknown tool", FALSE, <<>>)

\* AnalyzerAgent._execute_tool, name = "search_logs": input_data["query"]
AnalyzerToolRaises(b) == b.name = "search_logs" /\ b.query = Absent

\* AnalyzerAgent._execute_tool
AnalyzerTool(b) ==
    IF b.name = "search_logs"
    THEN ToolResult("results", "", TRUE, <<>>)
    ELSE IF b.name = "submit_analysis"
    THEN ToolResult("analysis_submitted", "", TRUE, <<>>)
    ELSE ToolResult("", "Unknown tool", FALSE, <<>>)

\* VersionerAgent._execute_tools: one tool_result per block, in order
VersionerTools(blocks) ==
    [i \in 1..Len(blocks) |->
        [tool_use_id |-> i, content |-> VersionerTool(blocks[i])]]

\* AnalyzerAgent._execute_tools: one tool_result per block, in order
AnalyzerTools(blocks) ==
    [i \in 1..Len(blocks) |->
        [tool_use_id |-> i, content |-> AnalyzerTool(blocks[i])]]

\* the position of the first block of that name, 0 if there is none
FirstBlock(blocks, name) ==
    IF \E i \in 1..Len(blocks) : blocks[i].name = name
    THEN CHOOSE i \in 1..Len(blocks) :
             /\ blocks[i].name = name
             /\ \A j \in 1..(i - 1) : blocks[j].name # name
    ELSE 0

\* the ids _parse_analysis generates: f"P{i}", f"H{i}" of enumerate()
PlaceholderId(letter, i) ==
    IF letter = "P" THEN <<"P0", "P1", "P2">>[i + 1]
    ELSE <<"H0", "H1", "H2">>[i + 1]

\* AnalyzerAgent._parse_analysis
_parse_analysis(input) ==
    [problems |->
        [i \in 1..Len(input.problems) |->
            [id |-> IF input.problems[i].id = Absent
                    THEN PlaceholderId("P", i - 1)
                    ELSE input.problems[i].id,
             description |-> input.problems[i].description]],
     hypotheses |->
        [i \in 1..Len(input.hypotheses) |->
            [id |-> IF input.hypotheses[i].id = Absent
                    THEN PlaceholderId("H", i - 1)
                    ELSE input.hypotheses[i].id,
             confidence |-> IF input.hypotheses[i].confidence = AbsentNumber
                            THEN 50
                            ELSE input.hypotheses[i].confidence,
             suggestion |-> input.hypotheses[i].suggestion]],
     confidence_score |-> IF input.overall_confidence = AbsentNumber THEN 50
                          ELSE input.overall_confidence]

\* a fallback that ignores the feedback: C9 must tell it from the code's
_create_fallback_blank(feedback) ==
    [problems |-> <<>>, hypotheses |-> <<>>, confidence_score |-> 50]

\* AnalyzerAgent._create_fallback_result
_create_fallback_result(feedback) ==
    [problems |-> <<[id |-> "P1",
                     description |-> <<"User feedback: ", feedback.raw_text>>]>>,
     hypotheses |-> <<[id |-> "H1", confidence |-> 60,
                       suggestion |-> <<"Address feedback about ",
                                        feedback.category>>]>>,
     confidence_score |-> 50]

(***************************************************************************)
(* ImprovementOrchestrator.run.  Every action is the code from one await   *)
(* to the next; log_improvement_event appends to the log or raises.        *)
(***************************************************************************)
\* the calls of PromptManager are synchronous: while one made by the cli is
\* in progress the event loop runs no step of run
EventLoopFree == op.pc = "idle"

Event(type, error) == [type |-> type, error |-> error]

\* an exception reaches "except Exception" of run (line 190); the locals of
\* analyze and improve are gone
Raise(r, e) == [r EXCEPT !.pc = "improvement_failed", !.exc = e,
                         !.calls = 0, !.results = <<>>,
                         !.gate = AbsentNumber,
                         !.feedback = RunIdle.feedback]

\* no improvement was triggered yet: MainAgent._improvement_task is None
\* (agents/main_agent.py:44); logged are the events _trigger_improvement
\* itself has written
NoTask == [pc |-> "none", feedback |-> RunIdle.feedback, result |-> NoResult,
           exc |-> NoExc, logged |-> <<>>]

\* the turn of process, were the first step of _trigger_improvement awaited
\* in it
ProcessAwaiting ==
    /\ task.pc \in {"none", "returned", "raised"}
    /\ run.pc = "idle"
    /\ EventLoopFree
    /\ runs < MaxRuns
    /\ \E message \in Messages :
          LET feedback == detect(message)
          IN  task' = IF feedback # NoFeedback
                          /\ should_trigger_improvement(feedback)
                       THEN [NoTask EXCEPT !.pc = "run",
                                           !.feedback = feedback]
                       ELSE task
    /\ UNCHANGED <<storeVars, config, manual, run, events, runs, sideVars>>

\* MainAgent.process, agents/main_agent.py 96-98 and 135-140: the turn of a
\* message. With a feedback that should trigger, the task is created and
\* the generator ends; otherwise nothing of the pipeline changes. The turns
\* followed are those taken while no earlier task is in progress.
Process ==
    /\ task.pc \in {"none", "returned", "raised"}
    /\ run.pc = "idle"
    /\ EventLoopFree
    /\ runs < MaxRuns
    /\ \E message \in Messages :
          LET feedback == detect(message)
          IN  task' = IF feedback # NoFeedback
                          /\ should_trigger_improvement(feedback)
                       THEN [NoTask EXCEPT !.pc = "pending",
                                           !.feedback = feedback]
                       ELSE task
    /\ UNCHANGED <<storeVars, config, manual, run, events, runs, sideVars>>

\* _trigger_improvement, agents/main_agent.py 148-175: the task starts;
\* get_recent of the log manager returns, or raises into the except
TriggerStart ==
    /\ task.pc = "pending"
    /\ EventLoopFree
    /\ \/ task' = [task EXCEPT !.pc = "run"]
       \/ task' = [task EXCEPT !.pc = "failed_event", !.exc = LogError]
    /\ UNCHANGED <<storeVars, config, manual, run, events, runs, sideVars>>

\* agents/main_agent.py 180-184 and core/orchestrator.py 76-77: run is
\* called; current_version is read outside the try
RunStart ==
    /\ task.pc = "run"
    /\ run.pc = "idle"
    /\ op.pc = "idle"
    /\ runs < MaxRuns
    /\ runs' = runs + 1
    /\ events' = <<>>
    /\ \E target \in Targets, readable \in BOOLEAN :
          run' = IF readable
                 THEN [RunIdle EXCEPT !.pc = "improvement_started",
                                      !.feedback = task.feedback,
                                      !.target = target,
                                      !.old_version = current_version(target)]
                 ELSE [RunIdle EXCEPT !.pc = "raised",
                                      !.feedback = task.feedback,
                                      !.target = target, !.exc = StoreError]
    /\ UNCHANGED <<storeVars, config, manual, task, sideVars>>

\* lines 81-91
LogImprovementStarted ==
    /\ run.pc = "improvement_started"
    /\ EventLoopFree
    /\ \/ /\ events' = Append(events, Event("improvement_started", ""))
          /\ run' = [run EXCEPT !.pc = "analysis_started"]
       \/ /\ run' = Raise(run, LogError)
          /\ UNCHANGED events
    /\ UNCHANGED <<storeVars, config, manual, task, runs, sideVars>>

\* lines 94-99 and analyzer.py 196: the event, get_current of the target,
\* then analyze starts with the system prompt of the analyzer
LogAnalysisStarted ==
    /\ run.pc = "analysis_started"
    /\ EventLoopFree
    /\ \/ /\ events' = Append(events, Event("analysis_started", ""))
          /\ run' = IF CanGetCurrent(run.target) /\ CanGetCurrent("analyzer")
                    THEN [run EXCEPT !.pc = "analyze", !.calls = 0,
                                     !.results = <<>>]
                    ELSE Raise(run, NoPromptFound)
       \/ /\ run' = Raise(run, LogError)
          /\ UNCHANGED events
    /\ UNCHANGED <<storeVars, config, manual, task, runs, sideVars>>

\* analyzer.py 247-264: what analyze does with one response; _execute_tools
\* has no try, so an exception of a tool handler leaves analyze
AnalyzerTurn(r, response) ==
    IF response.stop_reason # "tool_use"
    THEN [r EXCEPT !.calls = @ + 1, !.results = <<>>,
                   !.analysis = _create_fallback_result(r.feedback),
                   !.fallback = TRUE,
                   !.pc = "analysis_completed"]
    ELSE LET i == FirstBlock(response.content, "submit_analysis")
             results == AnalyzerTools(response.content)
         IN  IF \E j \in 1..Len(response.content) :
                    AnalyzerToolRaises(response.content[j])
             THEN Raise([r EXCEPT !.calls = @ + 1], MissingQuery)
             ELSE IF i > 0
             THEN [r EXCEPT !.calls = @ + 1, !.results = <<>>,
                            !.analysis = _parse_analysis(response.content[i].input),
                            !.pc = "analysis_completed"]
             ELSE [r EXCEPT !.calls = @ + 1, !.results = results]

\* a response that requests no tool
EndTurn == [stop_reason |-> "end_turn", content |-> <<>>]

\* what the backend may answer the analyzer
AnalyzerResponses ==
    {EndTurn}
    \cup {[stop_reason |-> "tool_use", content |-> c] : c \in AnalyzerContents}

\* analyzer.py 232-264: one pass of the loop, client.messages.create first
AnalyzeCall ==
    /\ run.pc = "analyze"
    /\ EventLoopFree
    /\ run.calls < MaxBackendCalls
    /\ \/ run' = Raise([run EXCEPT !.calls = @ + 1], BackendError)
       \/ \E response \in AnalyzerResponses : run' = AnalyzerTurn(run, response)
    /\ UNCHANGED <<storeVars, config, manual, task, events, runs, sideVars>>

\* lines 106-116: the event, then the confidence gate (run does not read
\* the feedback again)
LogAnalysisCompleted ==
    /\ run.pc = "analysis_completed"
    /\ EventLoopFree
    /\ \/ /\ events' = Append(events, Event("analysis_completed", ""))
          /\ run' = [run EXCEPT
                        !.calls = 0, !.results = <<>>,
                        !.feedback = RunIdle.feedback,
                        !.gate = config.improvement_confidence,
                        !.pc = IF run.analysis.confidence_score
                                    < config.improvement_confidence
                               THEN "improvement_skipped"
                               ELSE "versioning_started"]
       \/ /\ run' = Raise(run, LogError)
          /\ UNCHANGED events
    /\ UNCHANGED <<storeVars, config, manual, task, runs, sideVars>>

\* a skip that also reports completion: C12 must tell it from the code's
LogImprovementSkippedAndCompleted ==
    /\ run.pc = "improvement_skipped"
    /\ EventLoopFree
    /\ events' = events \o <<Event("improvement_skipped", ""),
                              Event("improvement_completed", "")>>
    /\ run' = [run EXCEPT
                  !.pc = "done",
                  !.result = ImprovementResult(FALSE, run.old_version, None,
                                 "Low confidence - improvement skipped")]
    /\ UNCHANGED <<storeVars, config, manual, task, runs, sideVars>>

\* lines 117-134
LogImprovementSkipped ==
    /\ run.pc = "improvement_skipped"
    /\ EventLoopFree
    /\ \/ /\ events' = Append(events, Event("improvement_skipped", ""))
          /\ run' = [run EXCEPT
                        !.pc = "done", !.gate = AbsentNumber,
                        !.result = ImprovementResult(FALSE, run.old_version, None,
                                       "Low confidence - improvement skipped")]
       \/ /\ run' = Raise(run, LogError)
          /\ UNCHANGED events
    /\ UNCHANGED <<storeVars, config, manual, task, runs, sideVars>>

\* lines 137-149 and versioner.py 154-156: the event, then improve is
\* called and reads the prompts of the versioner and of the target
LogVersioningStarted ==
    /\ run.pc = "versioning_started"
    /\ EventLoopFree
    /\ \/ /\ events' = Append(events, Event("versioning_started", ""))
          /\ run' = IF CanGetCurrent("versioner") /\ CanGetCurrent(run.target)
                    THEN [run EXCEPT !.pc = "improve", !.calls = 0,
                                     !.gate = AbsentNumber,
                                     !.results = <<>>, !.improves = @ + 1]
                    ELSE Raise([run EXCEPT !.improves = @ + 1], NoPromptFound)
       \/ /\ run' = Raise(run, LogError)
          /\ UNCHANGED events
    /\ UNCHANGED <<storeVars, config, manual, task, runs, sideVars>>

\* what the backend may answer the versioner
VersionerResponses ==
    {EndTurn}
    \cup {[stop_reason |-> "tool_use", content |-> c] : c \in VersionerContents}

\* the block improve hands to _save_version (versioner.py 222-225)
SavedBlock(response) ==
    response.content[FirstBlock(response.content, "create_prompt_version")]

\* an improve that makes up a version when the response requests no
\* create_prompt_version: C8 must tell it from the code's
VersionerTurnSynth(r, response) ==
    [r EXCEPT !.calls = @ + 1, !.pc = "save_version",
              !.saved = IF FirstBlock(response.content,
                                      "create_prompt_version") > 0
                        THEN SavedBlock(response)
                        ELSE CreateBlock(r.target, PromptAlt, "text")]

\* versioner.py 216-234: what improve does with one response; a response
\* without tool request raises the VersioningError of agents/versioner.py,
\* which "except VersioningError" of run does not name
VersionerTurn(r, response) ==
    IF response.stop_reason # "tool_use"
    THEN IF CaughtAsVersioningError(NoVersionCreated)
         THEN [r EXCEPT !.calls = @ + 1, !.pc = "versioning_failed",
                        !.exc = NoVersionCreated]
         ELSE Raise([r EXCEPT !.calls = @ + 1], NoVersionCreated)
    ELSE LET results == VersionerTools(response.content)
         IN  IF \E j \in 1..Len(response.content) :
                    VersionerToolRaises(response.content[j])
             THEN Raise([r EXCEPT !.calls = @ + 1], VersionNotFound)
             ELSE IF FirstBlock(response.content, "create_prompt_version") > 0
             THEN [r EXCEPT !.calls = @ + 1, !.results = <<>>,
                            !.pc = "save_version",
                            !.saved = SavedBlock(response)]
             ELSE [r EXCEPT !.calls = @ + 1, !.results = results]

\* versioner.py 207-225: one pass of the loop, client.messages.create first
ImproveCall ==
    /\ run.pc = "improve"
    /\ EventLoopFree
    /\ run.calls < MaxBackendCalls
    /\ \/ run' = Raise([run EXCEPT !.calls = @ + 1], BackendError)
       \/ \E response \in VersionerResponses :
             run' = VersionerTurn(run, response)
    /\ UNCHANGED <<storeVars, config, manual, task, events, runs, sideVars>>

\* versioner.py 224 and 326-371: _save_version calls create_version with the
\* agent_name and new_prompt of the block; the messages are not used again
SaveVersion ==
    /\ run.pc = "save_version"
    /\ BeginCreate(run.saved.agent_name, run.saved.prompt, "run")
    /\ run' = [run EXCEPT !.pc = "saving", !.calls = 0, !.results = <<>>]
    /\ UNCHANGED <<files, link, last, issued, known, apiCalls,
                   config, manual, task, events, runs, sideVars>>

\* prompts.py 134 and versioner.py 373-379, 227-236: create_version returns
\* to _save_version, which returns the PromptVersion; improve returns it
SaveReturn ==
    /\ run.pc = "saving"
    /\ op.pc = "return"
    /\ op.caller = "run"
    /\ issued' = [issued EXCEPT ![op.agent] = @ \cup {op.new_version}]
    /\ last' = Completed(op, op.new_version)
    /\ op' = OpIdle
    /\ run' = [run EXCEPT !.pc = "version_created",
                          !.creates = @ + 1,
                          !.saved = Block("none"),
                          !.new_version = [version |-> op.new_version,
                                           content |-> op.prompt,
                                           rationale |-> run.saved.rationale]]
    /\ UNCHANGED <<files, link, now, known, apiCalls, config, manual, task, events, runs, sideVars>>

\* lines 158-167; rationale[:500] raises when the rationale is no string
LogVersionCreated ==
    /\ run.pc = "version_created"
    /\ EventLoopFree
    /\ \/ /\ run.new_version.rationale # "text"
          /\ run' = Raise(run, RationaleError)
          /\ UNCHANGED events
       \/ /\ run.new_version.rationale = "text"
          /\ events' = Append(events, Event("version_created", ""))
          /\ run' = [run EXCEPT !.pc = "improvement_completed"]
       \/ /\ run.new_version.rationale = "text"
          /\ run' = Raise(run, LogError)
          /\ UNCHANGED events
    /\ UNCHANGED <<storeVars, config, manual, task, runs, sideVars>>

\* lines 169-188
LogImprovementCompleted ==
    /\ run.pc = "improvement_completed"
    /\ EventLoopFree
    /\ \/ /\ events' = Append(events, Event("improvement_completed", ""))
          /\ run' = [run EXCEPT
                        !.pc = "done",
                        !.result = ImprovementResult(TRUE, run.old_version,
                                       run.new_version.version, "")]
       \/ /\ run' = Raise(run, LogError)
          /\ UNCHANGED events
    /\ UNCHANGED <<storeVars, config, manual, task, runs, sideVars>>

\* lines 190-210: except Exception; the handler logs, then returns
LogImprovementFailed ==
    /\ run.pc = "improvement_failed"
    /\ EventLoopFree
    /\ \/ /\ events' = Append(events, Event("improvement_failed", run.exc.msg))
          /\ run' = [run EXCEPT
                        !.pc = "done",
                        !.result = ImprovementResult(FALSE, run.old_version,
                                                     None, run.exc.msg)]
       \/ /\ run' = [run EXCEPT !.pc = "raised", !.exc = LogError]
          /\ UNCHANGED events
    /\ UNCHANGED <<storeVars, config, manual, task, runs, sideVars>>

\* agents/main_agent.py 180-186 and 195: _trigger_improvement has the
\* result of run, or its exception in the except; without success it
\* returns. No run is in progress then, and events is empty again.
RunEnd ==
    /\ run.pc \in {"done", "raised"}
    /\ task.pc = "run"
    /\ EventLoopFree
    /\ run' = RunIdle
    /\ events' = <<>>
    /\ task' = IF run.pc = "raised"
               THEN [task EXCEPT !.pc = "failed_event", !.exc = run.exc]
               ELSE [task EXCEPT !.result = run.result,
                                 !.pc = IF run.result.success
                                        THEN "completed_event"
                                        ELSE "returned"]
    /\ UNCHANGED <<storeVars, config, manual, runs, sideVars>>

\* agents/main_agent.py 186-194: after a success the trigger writes an
\* improvement_completed event of its own; a failure of the write is caught
LogTriggerCompleted ==
    /\ task.pc = "completed_event"
    /\ EventLoopFree
    /\ \/ task' = [task EXCEPT !.pc = "returned",
                                !.logged = Append(@, "improvement_completed")]
       \/ task' = [task EXCEPT !.pc = "failed_event", !.exc = LogError]
    /\ UNCHANGED <<storeVars, config, manual, run, events, runs, sideVars>>

\* agents/main_agent.py 195-199: the except writes improvement_failed and
\* the coroutine returns; an exception of that write is the task's
LogTriggerFailed ==
    /\ task.pc = "failed_event"
    /\ EventLoopFree
    /\ \/ task' = [task EXCEPT !.pc = "returned", !.exc = NoExc,
                                !.logged = Append(@, "improvement_failed")]
       \/ task' = [task EXCEPT !.pc = "raised", !.exc = LogError]
    /\ UNCHANGED <<storeVars, config, manual, run, events, runs, sideVars>>

\* MainAgent.get_improvement_status, agents/main_agent.py 207-217; the text
\* after "failed" is left out
get_improvement_status ==
    IF task.pc = "none" THEN "None"
    ELSE IF task.pc = "returned" THEN "completed"
    ELSE IF task.pc = "raised" THEN "failed"
    ELSE "in_progress"

\* ManualImprovementOrchestrator.run, lines 233-235: the override of the
\* shared threshold; its super().run then runs from await to await beside
\* the run followed above and does not write config
ManualRunStart ==
    /\ EventLoopFree
    /\ Suspended
    /\ \E i \in ManualRuns :
          /\ manual[i].pc = "idle"
          /\ \A j \in 1..(i - 1) : manual[j].pc = "running"
          /\ manual' = [manual EXCEPT ![i] =
                [pc |-> "running",
                 original_threshold |-> config.improvement_confidence]]
    /\ config' = [config EXCEPT !.improvement_confidence = 0]
    /\ UNCHANGED <<storeVars, task, run, events, runs, sideVars>>

\* lines 239-243: finally restores the threshold, then run returns or raises
ManualRunEnd ==
    /\ EventLoopFree
    /\ Suspended
    /\ \E i \in ManualRuns :
          /\ manual[i].pc = "running"
          /\ config' = [config EXCEPT !.improvement_confidence =
                                         manual[i].original_threshold]
          /\ manual' = [manual EXCEPT ![i] = NoManualRun]
    /\ UNCHANGED <<storeVars, task, run, events, runs, sideVars>>

PipeInit ==
    /\ config = ThresholdConfig
    /\ manual = [i \in ManualRuns |-> NoManualRun]
    /\ task = NoTask
    /\ run = RunIdle
    /\ events = <<>>
    /\ runs = 0

(***************************************************************************)
(* Specifications.                                                         *)
(***************************************************************************)
(***************************************************************************)
(* The planning module: Task objects (planning/task.py).                   *)
(***************************************************************************)
\* datetime.now(timezone.utc) at tick n of the clock: the ticks fall on a
\* whole second and on a half second in turn
DateTime(n) == [second |-> n \div 2, microsecond |-> (n % 2) * 500000]

\* None where a datetime may stand
NoTime == [second |-> -1, microsecond |-> 0]

\* isoformat(timespec="seconds"), which never writes the fraction
isoformat_seconds(d) == <<d.second>>

\* datetime.isoformat: the parts of the text; the fraction is left out when
\* the microseconds are 0
isoformat(d) ==
    IF d.microsecond = 0 THEN <<d.second>> ELSE <<d.second, d.microsecond>>

\* datetime.fromisoformat
fromisoformat(text) ==
    IF Len(text) = 1 THEN [second |-> text[1], microsecond |-> 0]
    ELSE [second |-> text[1], microsecond |-> text[2]]

\* None where a text may stand, and None where an ISO text may stand
NoText == "<None>"
NoIso == <<>>

\* TaskStatus: the value of each member, and TaskStatus(value)
TaskStatusValue(status) ==
    IF status = "PENDING" THEN "pending"
    ELSE IF status = "IN_PROGRESS" THEN "in_progress"
    ELSE IF status = "COMPLETED" THEN "completed"
    ELSE "blocked"

TaskStatus(value) ==
    IF value = "pending" THEN "PENDING"
    ELSE IF value = "in_progress" THEN "IN_PROGRESS"
    ELSE IF value = "completed" THEN "COMPLETED"
    ELSE "BLOCKED"

\* the dataclass Task, lines 34-42
Task(id, title, status, description, priority, parent_id, created_at, updated_at, completed_at) ==
    [id |-> id, title |-> title, status |-> status,
     description |-> description, priority |-> priority,
     parent_id |-> parent_id, created_at |-> created_at,
     updated_at |-> updated_at, completed_at |-> completed_at]

\* no Task object was made
NoObject == Task("", "", "PENDING", NoText, 0, NoText, NoTime, NoTime, NoTime)

\* uuid.uuid4().hex[:8]
TaskIds == {"a1b2c3d4", "a1e5f6a7", "b8c9d0e1"}

\* Task.create, lines 45-59: the two default factories read the clock one
\* after the other
create(id, title, description, priority, parent_id, n1, n2) ==
    Task(id, title, "PENDING", description, priority, parent_id,
         DateTime(n1), DateTime(n2), NoTime)

\* Task.complete, lines 61-66
complete(self, n1, n2) ==
    [self EXCEPT !.status = "COMPLETED", !.completed_at = DateTime(n1),
                 !.updated_at = DateTime(n2)]

\* start, were it to leave a completed task alone
start_unfinished(self, n) ==
    IF self.status = "COMPLETED" THEN self
    ELSE [self EXCEPT !.status = "IN_PROGRESS", !.updated_at = DateTime(n)]

\* Task.start, lines 68-72
start(self, n) ==
    [self EXCEPT !.status = "IN_PROGRESS", !.updated_at = DateTime(n)]

\* Task.block, lines 74-78
block(self, n) ==
    [self EXCEPT !.status = "BLOCKED", !.updated_at = DateTime(n)]

\* Task.is_completed, lines 109-112
is_completed(self) == self.status = "COMPLETED"

\* Task.to_dict, lines 80-92
to_dict(self) ==
    [id |-> self.id, title |-> self.title,
     status |-> TaskStatusValue(self.status),
     description |-> self.description, priority |-> self.priority,
     parent_id |-> self.parent_id,
     created_at |-> isoformat(self.created_at),
     updated_at |-> isoformat(self.updated_at),
     completed_at |-> IF self.completed_at # NoTime
                      THEN isoformat(self.completed_at) ELSE NoIso]

\* Task.from_dict, lines 94-107: data.get("completed_at") is false for None
\* and for an empty text
from_dict(data) ==
    Task(data.id, data.title, TaskStatus(data.status), data.description,
         data.priority, data.parent_id,
         fromisoformat(data.created_at), fromisoformat(data.updated_at),
         IF data.completed_at # NoIso
         THEN fromisoformat(data.completed_at) ELSE NoTime)

\* the clock readings a call may get: now and later, in order
Ticks == clock..MaxTick

\* Task.create(title, description, priority, parent_id)
TaskCreate ==
    /\ plan_task = NoObject
    /\ \E id \in TaskIds, description \in {NoText, "", "text"},
          priority \in {0, 2}, parent_id \in {NoText, "b8c9d0e1"},
          n1 \in Ticks :
          \E n2 \in n1..MaxTick :
              /\ plan_task' = create(id, "Test task", description, priority,
                                     parent_id, n1, n2)
              /\ clock' = n2
    /\ restored' = NoObject
    /\ UNCHANGED <<storeVars, pipeVars, validation, tasks_file, mgr_calls>>

\* task.start()
TaskStart ==
    /\ plan_task # NoObject
    /\ \E n \in Ticks :
          /\ plan_task' = start(plan_task, n)
          /\ clock' = n
    /\ restored' = NoObject
    /\ UNCHANGED <<storeVars, pipeVars, validation, tasks_file, mgr_calls>>

\* task.complete()
TaskComplete ==
    /\ plan_task # NoObject
    /\ \E n1 \in Ticks :
          \E n2 \in n1..MaxTick :
              /\ plan_task' = complete(plan_task, n1, n2)
              /\ clock' = n2
    /\ restored' = NoObject
    /\ UNCHANGED <<storeVars, pipeVars, validation, tasks_file, mgr_calls>>

\* task.block()
TaskBlock ==
    /\ plan_task # NoObject
    /\ \E n \in Ticks :
          /\ plan_task' = block(plan_task, n)
          /\ clock' = n
    /\ restored' = NoObject
    /\ UNCHANGED <<storeVars, pipeVars, validation, tasks_file, mgr_calls>>

\* Task.from_dict(task.to_dict()), tests/test_task.py 42-46
TaskRoundTrip ==
    /\ plan_task # NoObject
    /\ restored = NoObject
    /\ restored' = from_dict(to_dict(plan_task))
    /\ UNCHANGED <<storeVars, pipeVars, validation, plan_task, clock,
                   tasks_file, mgr_calls>>

(***************************************************************************)
(* The planning module: TaskManager (planning/manager.py).                 *)
(***************************************************************************)
\* the coroutines that call the TaskManager of one store, one call each
Callers == 1..MaxCallers

\* task_id arguments: the ids in full, the prefix two ids share, the prefix
\* of one, and an id no task has
TaskArgs == TaskIds \cup {"a1", "b8", "ffffffff"}

\* manager.py 98: task.id == task_id or task.id.startswith(task_id)
Matches(id, task_id) ==
    \/ id = task_id
    \/ task_id = "a1" /\ id \in {"a1b2c3d4", "a1e5f6a7"}
    \/ task_id = "b8" /\ id = "b8c9d0e1"

\* TaskManager._load_all, lines 31-46, of a file of well-formed lines
_load_all(lines) == [i \in 1..Len(lines) |-> from_dict(lines[i])]

\* what TaskManager._save_all writes, lines 48-52
_save_all(tasks) == [i \in 1..Len(tasks) |-> to_dict(tasks[i])]

\* the position of the first task that matches, 0 if there is none
FirstMatch(tasks, task_id) ==
    IF \E i \in 1..Len(tasks) : Matches(tasks[i].id, task_id)
    THEN CHOOSE i \in 1..Len(tasks) :
             /\ Matches(tasks[i].id, task_id)
             /\ \A j \in 1..(i - 1) : ~Matches(tasks[j].id, task_id)
    ELSE 0

\* TaskManager.get, lines 96-100, on the loaded tasks
get(tasks, task_id) ==
    IF FirstMatch(tasks, task_id) = 0 THEN NoObject
    ELSE tasks[FirstMatch(tasks, task_id)]

\* the ids of the tasks a file lists
ListedIds(lines) == {lines[i].id : i \in 1..Len(lines)}

\* a TaskManager call: its name, argument and position, the lines it has
\* loaded, the tasks it will save, the task it made or changed, and whether
\* it found a task
ManagerCall(kind, pc, task_id, tasks, ret, found) ==
    [kind |-> kind, pc |-> pc, task_id |-> task_id, loaded |-> <<>>,
     tasks |-> tasks, ret |-> ret, found |-> found]

NoManagerCall == ManagerCall("none", "idle", "", <<>>, NoObject, FALSE)

\* tasks a store may hold when the calls start
StoredTask(id) == create(id, "Test task", NoText, 0, NoText, 0, 0)

StoredFiles ==
    {<<>>,
     _save_all(<<StoredTask("a1b2c3d4")>>),
     _save_all(<<StoredTask("a1b2c3d4"), StoredTask("a1e5f6a7")>>),
     _save_all(<<StoredTask("a1b2c3d4"),
                 complete(StoredTask("a1e5f6a7"), 0, 0)>>)}

\* TaskManager.create, lines 73-78: the Task is made before the file is
\* opened; the id is one no task of the store has
ManagerCreate ==
    /\ \E c \in Callers, id \in TaskIds :
          /\ mgr_calls[c].kind = "none"
          /\ id \notin ListedIds(tasks_file)
          /\ \A d \in Callers : mgr_calls[d].ret.id # id
          /\ mgr_calls' =
                [mgr_calls EXCEPT ![c] =
                    ManagerCall("create", "append", "", <<>>,
                                create(id, "Test task", NoText, 0, NoText,
                                       clock, clock), FALSE)]
    /\ UNCHANGED <<storeVars, pipeVars, validation, plan_task, restored,
                   clock, tasks_file>>

\* lines 81-84: the line is appended and the task returned
ManagerAppend ==
    /\ \E c \in Callers :
          /\ mgr_calls[c].pc = "append"
          /\ tasks_file' = Append(tasks_file, to_dict(mgr_calls[c].ret))
          /\ mgr_calls' = [mgr_calls EXCEPT ![c].pc = "returned"]
    /\ UNCHANGED <<storeVars, pipeVars, validation, plan_task, restored,
                   clock>>

\* complete, start, delete or clear_completed is called
ManagerChange ==
    /\ \E c \in Callers, kind \in {"complete", "start", "delete"},
          task_id \in TaskArgs :
          /\ mgr_calls[c].kind = "none"
          /\ mgr_calls' =
                [mgr_calls EXCEPT ![c] =
                    ManagerCall(kind, "load", task_id, <<>>, NoObject, FALSE)]
    /\ UNCHANGED <<storeVars, pipeVars, validation, plan_task, restored,
                   clock, tasks_file>>

ManagerClear ==
    /\ \E c \in Callers :
          /\ mgr_calls[c].kind = "none"
          /\ mgr_calls' =
                [mgr_calls EXCEPT ![c] =
                    ManagerCall("clear_completed", "load", "", <<>>,
                                NoObject, FALSE)]
    /\ UNCHANGED <<storeVars, pipeVars, validation, plan_task, restored,
                   clock, tasks_file>>

\* the tasks a call saves after it has loaded tasks: lines 154-159 of
\* complete, 179-184 of start, 204 of delete, 252 of clear_completed
Changed(call, tasks) ==
    LET i == FirstMatch(tasks, call.task_id)
    IN  IF call.kind = "complete" /\ i > 0
        THEN [tasks EXCEPT ![i] = complete(@, clock, clock)]
        ELSE IF call.kind = "start" /\ i > 0
        THEN [tasks EXCEPT ![i] = start(@, clock)]
        ELSE IF call.kind = "delete"
        THEN SelectSeq(tasks, LAMBDA x : ~Matches(x.id, call.task_id))
        ELSE IF call.kind = "clear_completed"
        THEN SelectSeq(tasks, LAMBDA x : x.status # "COMPLETED")
        ELSE tasks

\* _load_all has returned: the call changes its copy of the tasks; without
\* a match complete and start return None and delete returns False (lines
\* 161, 186, 206), clear_completed saves in any case (line 254)
ManagerLoad ==
    /\ \E c \in Callers :
          /\ mgr_calls[c].pc = "load"
          /\ LET call == mgr_calls[c]
                 tasks == _load_all(tasks_file)
                 i == FirstMatch(tasks, call.task_id)
                 found == IF call.kind = "clear_completed" THEN TRUE
                          ELSE IF call.kind = "delete"
                          THEN Len(Changed(call, tasks)) < Len(tasks)
                          ELSE i > 0
             IN  mgr_calls' =
                   [mgr_calls EXCEPT ![c] =
                       [call EXCEPT
                           !.loaded = tasks_file,
                           !.tasks = Changed(call, tasks),
                           !.found = found,
                           !.ret = IF call.kind \in {"complete", "start"}
                                      /\ i > 0
                                   THEN Changed(call, tasks)[i]
                                   ELSE NoObject,
                           !.pc = IF found THEN "save" ELSE "returned"]]
    /\ UNCHANGED <<storeVars, pipeVars, validation, plan_task, restored,
                   clock, tasks_file>>

\* _save_all has rewritten the file with the call's copy; the call returns
ManagerSave ==
    /\ \E c \in Callers :
          /\ mgr_calls[c].pc = "save"
          /\ tasks_file' = _save_all(mgr_calls[c].tasks)
          /\ mgr_calls' = [mgr_calls EXCEPT ![c].pc = "returned"]
    /\ UNCHANGED <<storeVars, pipeVars, validation, plan_task, restored,
                   clock>>

PlanInit ==
    /\ plan_task = NoObject
    /\ restored = NoObject
    /\ clock = 0
    /\ tasks_file = <<>>
    /\ mgr_calls = [c \in Callers |-> NoManagerCall]

\* no validate_prompt call was made
NoValidation ==
    [prompt |-> PromptEmpty, done |-> FALSE,
     result |-> ToolResult("", "", FALSE, <<>>)]

\* prompts of every length around the limits of validate_prompt, blank or
\* not, with and without "{{" or "}}", with and without "##" or "**"
PromptValues ==
    {[id |-> "text", len |-> len, stripped |-> stripped,
      tmpl |-> tmpl, sect |-> sect] :
        len \in {0, 1, 2, 3, 90, 499, 500, 501, 600, 800,
                 15999, 16000, 16001, 20001},
        stripped \in {0, 1, 2, 3, 90, 499, 500, 501, 600, 800,
                      15999, 16000, 16001, 20001},
        tmpl \in BOOLEAN, sect \in BOOLEAN}

\* the texts among them: strip() removes all or nothing of the text, and a
\* marker of two characters is no white space
PromptTexts ==
    {q \in PromptValues :
        /\ q.stripped \in {0, q.len}
        /\ (q.tmpl \/ q.sect) => q.stripped >= 2}

\* versioner.py 280-305: _execute_tool("validate_prompt", ...) returns
ValidatePrompt ==
    /\ ~validation.done
    /\ validation' =
          [validation EXCEPT
              !.done = TRUE,
              !.result = VersionerTool(Validate(validation.prompt))]
    /\ UNCHANGED <<storeVars, pipeVars, planVars>>

SideInit ==
    /\ validation = NoValidation
    /\ PlanInit

Init == StoreInit /\ PipeInit /\ SideInit

StoreNext ==
    \/ ApiCreate
    \/ CreateOpen
    \/ CreateDump
    \/ LinkUnlink
    \/ LinkSymlink
    \/ EndCreate
    \/ ApiRollback
    \/ EndRollback

SpecStore == Init /\ [][StoreNext]_vars

\* the pipeline: runs of the orchestrator and the rollback of the cli
Next ==
    \/ Process
    \/ TriggerStart
    \/ RunStart
    \/ LogImprovementStarted
    \/ LogAnalysisStarted
    \/ AnalyzeCall
    \/ LogAnalysisCompleted
    \/ LogImprovementSkipped
    \/ LogVersioningStarted
    \/ ImproveCall
    \/ SaveVersion
    \/ CreateOpen
    \/ CreateDump
    \/ LinkUnlink
    \/ LinkSymlink
    \/ SaveReturn
    \/ LogVersionCreated
    \/ LogImprovementCompleted
    \/ LogImprovementFailed
    \/ RunEnd
    \/ LogTriggerCompleted
    \/ LogTriggerFailed
    \/ CliRollback
    \/ EndRollback

Spec == Init /\ [][Next]_vars

\* the pipeline beside a manual run: no code of src/ constructs a
\* ManualImprovementOrchestrator, a caller of the package does
ManualNext ==
    \/ Next
    \/ ManualRunStart
    \/ ManualRunEnd

SpecManual == Init /\ [][ManualNext]_vars

\* the feedback threshold is FEEDBACK_CONFIDENCE_THRESHOLD of the
\* environment (config.py:99), here any hundredth of [0, 1]
FeedbackInit ==
    /\ StoreInit
    /\ \E threshold \in 0..100 :
          config = [ThresholdConfig EXCEPT !.feedback_confidence = threshold]
    /\ manual = [i \in ManualRuns |-> NoManualRun]
    /\ task = NoTask
    /\ run = RunIdle
    /\ events = <<>>
    /\ runs = 0
    /\ SideInit

\* the turns of MainAgent.process under each threshold
FeedbackNext == Process

SpecFeedback == FeedbackInit /\ [][FeedbackNext]_vars

\* validate_prompt called with each prompt text
ValidateInit ==
    /\ StoreInit
    /\ PipeInit
    /\ validation \in {[NoValidation EXCEPT !.prompt = q] : q \in PromptTexts}
    /\ PlanInit

ValidateNext == ValidatePrompt

SpecValidate == ValidateInit /\ [][ValidateNext]_vars

\* one Task object: create, then start, complete and block in any order,
\* and the round trip through to_dict and from_dict
TaskNext ==
    \/ TaskCreate
    \/ TaskStart
    \/ TaskComplete
    \/ TaskBlock
    \/ TaskRoundTrip

SpecTask == Init /\ [][TaskNext]_vars

\* the calls of the coroutines on one TaskManager store
ManagerInit ==
    /\ StoreInit
    /\ PipeInit
    /\ validation = NoValidation
    /\ plan_task = NoObject
    /\ restored = NoObject
    /\ clock = 0
    /\ tasks_file \in StoredFiles
    /\ mgr_calls = [c \in Callers |-> NoManagerCall]

ManagerNext ==
    \/ ManagerCreate
    \/ ManagerAppend
    \/ ManagerChange
    \/ ManagerClear
    \/ ManagerLoad
    \/ ManagerSave

SpecManager == ManagerInit /\ [][ManagerNext]_vars

(***************************************************************************)
(* Properties of the prompt store.                                         *)
(***************************************************************************)
\* the version numbers of the files of directory a
VersionsOf(a) == {f.version : f \in files[a]}

\* C1: between calls, the version numbers of the stored records of an agent
\* are exactly 1..n with no number held by two records, and every number
\* create_version returns is above every number issued before for the agent.
C1_VersionNumbersNeverReused ==
    /\ op.pc = "idle" =>
          \A a \in Agents : VersionsOf(a) = 1..Cardinality(files[a])
    /\ last.kind = "create" => last.fresh

\* C4: at every step, also inside create_version and rollback, an agent that
\* had an active pointer has one, and it resolves to a completely written
\* version file.
C4_PointerAlwaysResolves ==
    \A a \in known :
        /\ link[a] # NoFile
        /\ HasFile(a, link[a])
        /\ FileAt(a, link[a]).complete

\* C10: rollback to an existing version returns True, leaves every version
\* file as it was (none created, modified or deleted, at any of its steps),
\* and when it returns current_version is the target and get_current is the
\* prompt text stored under that version number.
C10_RollbackMovesPointerOnly ==
    /\ op.kind = "rollback" => files[op.agent] = op.preFiles
    /\ (op.kind = "rollback" /\ op.pc = "return") =>
          /\ current_version(op.agent) = op.target
          /\ CanGetCurrent(op.agent)
          /\ get_current(op.agent) \in
                {f.prompt : f \in {g \in op.preFiles : g.version = op.target}}
          /\ Cardinality(files[op.agent]) = Cardinality(op.preFiles)
    /\ last.kind = "rollback" => (last.ret = last.found)

\* a rollback that moved the pointer of a two-version history is returning
C10_Witness ==
    /\ op.kind = "rollback"
    /\ op.pc = "return"
    /\ op.preLink # op.name
    /\ Cardinality(op.preFiles) >= 2

\* C11: a rollback call for a version number no file of the agent carries
\* never starts moving the pointer; it returns at once, returns False, and
\* leaves every version file and every pointer as they were.
C11_RollbackNotFound ==
    [][/\ (op.pc = "idle" /\ op'.kind = "rollback")
            => {f \in files[op'.agent] : f.version = op'.target} # {}
       /\ (op.pc = "idle" /\ op' = op /\ apiCalls' # apiCalls)
            => /\ last'.kind = "rollback"
               /\ ~last'.found
               /\ last'.ret = FALSE
               /\ files' = files
               /\ link' = link
               /\ known' = known]_vars

\* a rollback has returned False for an agent with two version files
C11_Witness ==
    /\ op.pc = "idle"
    /\ last.kind = "rollback"
    /\ last.ret = FALSE
    /\ Cardinality(files["main_agent"]) >= 2
    /\ link["main_agent"] # NoFile

(***************************************************************************)
(* Properties of the improvement pipeline.                                 *)
(***************************************************************************)
\* C2: a version file is written for a run only when the new_prompt of the
\* create_prompt_version request passes validate_prompt, so every version
\* file of the store holds a prompt without validation issues.
C2_PersistedOnlyIfValid ==
    \A a \in Agents : \A f \in files[a] : f.complete => Valid(f.prompt)

\* run has ended for an analysis the analyzer returned
Gated == run.pc \in {"done", "raised"} /\ run.analysis # NoAnalysis

\* C3: a run whose analysis scored below the improvement threshold returns
\* success=False with new_version=None and has invoked improve zero times; a
\* run whose analysis scored at or above it has invoked improve exactly once.
C3_ConfidenceGate ==
    /\ (Gated /\ run.analysis.confidence_score < config.improvement_confidence)
          => /\ run.pc = "done"
             /\ ~run.result.success
             /\ run.result.new_version = None
             /\ run.improves = 0
    /\ (Gated /\ run.analysis.confidence_score >= config.improvement_confidence)
          => run.improves = 1

\* C5: a run that returns success=True has called create_version exactly
\* once, and a run that returns success=False has not called it.
C5_StoreMutatedIffSuccess ==
    run.pc = "done" =>
        /\ run.result.success => run.creates = 1
        /\ ~run.result.success => run.creates = 0

\* C6: run never ends with an exception, and when analyze or improve raised,
\* it returned success=False with the message of the exception as error after
\* logging improvement_failed.
C6_RunNeverRaises ==
    /\ run.pc # "raised"
    /\ (run.pc = "done" /\ run.exc \in {BackendError, NoVersionCreated})
          => /\ ~run.result.success
             /\ run.result.error = run.exc.msg
             /\ Len(events) > 0
             /\ events[Len(events)] = Event("improvement_failed", run.exc.msg)

\* C7: the tool loops of analyze and improve make at most 10 backend calls.
C7_LoopIsBounded ==
    run.pc \in {"analyze", "improve"} => run.calls <= 10

\* C8: when a response to the versioner requests no tool, improve raises the
\* VersioningError of agents/versioner.py: no PromptVersion is returned, no
\* create_version call starts, no version file and no pointer changes.
C8_NoToolResponseRaises ==
    [][(run.pc = "improve" /\ run' = VersionerTurn(run, EndTurn))
          => /\ run'.exc = NoVersionCreated
             /\ run'.exc.type = "agents.versioner.VersioningError"
             /\ run'.pc \in {"improvement_failed", "versioning_failed"}
             /\ run'.new_version = NoVersion
             /\ run'.saved = Block("none")
             /\ run'.creates = 0
             /\ files' = files
             /\ link' = link
             /\ op' = op]_vars

\* improve raised for a response without tool request
C8_Witness ==
    /\ run.pc = "improvement_failed"
    /\ run.exc = NoVersionCreated
    /\ run.improves = 1

\* C9: when a response to the analyzer requests no tool, analyze returns
\* (no exception) a result with exactly one problem and one hypothesis, the
\* problem holding the raw text and the hypothesis the category of the
\* feedback, and confidence_score 0.5.
C9_FallbackAnalysis ==
    [][(run.pc = "analyze" /\ run' = AnalyzerTurn(run, EndTurn))
          => /\ run'.pc = "analysis_completed"
             /\ run'.exc = NoExc
             /\ Len(run'.analysis.problems) = 1
             /\ Len(run'.analysis.hypotheses) = 1
             /\ run'.analysis.problems[1].description
                   = <<"User feedback: ", run.feedback.raw_text>>
             /\ run'.analysis.hypotheses[1].suggestion
                   = <<"Address feedback about ", run.feedback.category>>
             /\ run'.analysis.confidence_score = 50]_vars

\* analyze returned the fallback after a turn with tools
C9_Witness ==
    /\ run.pc = "analysis_completed"
    /\ run.fallback
    /\ run.calls >= 2

\* the types of the events the run in progress has written, in order
EventTypes == [i \in 1..Len(events) |-> events[i].type]

\* the event trail of a run that skips, and of one that creates a version
SkipTrail ==
    <<"improvement_started", "analysis_started", "analysis_completed",
      "improvement_skipped">>
VersionTrail ==
    <<"improvement_started", "analysis_started", "analysis_completed",
      "versioning_started", "version_created", "improvement_completed">>

IsPrefix(p, t) == Len(p) <= Len(t) /\ \A i \in 1..Len(p) : p[i] = t[i]

\* the events up to i are the events of a trail written without failure
Ordered(types) ==
    \/ IsPrefix(types, SkipTrail)
    \/ IsPrefix(types, VersionTrail)

C13_StopsAtFirstTerminal ==
    /\ run.pc = "analyze" =>
          \A response \in AnalyzerResponses :
              LET i == FirstBlock(response.content, "submit_analysis")
                  r == AnalyzerTurn(run, response)
              IN  (response.stop_reason = "tool_use" /\ i > 0)
                    => /\ r.pc = "analysis_completed"
                       /\ r.calls = run.calls + 1
                       /\ r.analysis = _parse_analysis(response.content[i].input)
    /\ run.pc = "improve" =>
          \A response \in VersionerResponses :
              LET i == FirstBlock(response.content, "create_prompt_version")
                  r == VersionerTurn(run, response)
              IN  (response.stop_reason = "tool_use" /\ i > 0)
                    => /\ r.pc = "save_version"
                       /\ r.calls = run.calls + 1
                       /\ r.saved = response.content[i]

\* C14: no tool request makes analyze or improve raise: the exception of a
\* tool handler never is the exception a run handles.
C14_ToolsNeverRaise ==
    run.exc \notin {MissingQuery, VersionNotFound}

\* C15: the create_version and rollback calls of overlapping runs and cli
\* commands for one agent never give two version files the same number, and
\* no create_version call returns a number issued before.
C15_NoNumberIssuedTwice ==
    /\ \A a \in Agents : Cardinality(VersionsOf(a)) = Cardinality(files[a])
    /\ last.kind = "create" => last.fresh

\* C16: the threshold the gate of a run compares with is the configured
\* improvement threshold, never the 0.0 a ManualImprovementOrchestrator.run
\* beside it has set for itself.
C16_GateReadsConfiguredThreshold ==
    run.gate # AbsentNumber => run.gate = ThresholdConfig.improvement_confidence

\* C17: the confidence_score and every hypothesis confidence of the
\* analysis that analyze returned, and that the gate compares, lie in [0,1].
C17_ConfidencesInRange ==
    /\ run.analysis.confidence_score \in 0..100
    /\ \A i \in 1..Len(run.analysis.hypotheses) :
          run.analysis.hypotheses[i].confidence \in 0..100


\* C18: once the task of a triggered run is done, get_improvement_status
\* reports a failure if the run ended without success (skip, VersioningError
\* or any other exception), and reports "completed" only if the run created
\* a new version.
C18_StatusReportsFailure ==
    task.pc \in {"returned", "raised"} =>
        /\ ~task.result.success => get_improvement_status = "failed"
        /\ get_improvement_status = "completed" =>
              /\ task.result.success
              /\ task.result.new_version # None

FeedbackValues ==
    {Feedback(type, category, "", confidence) :
        type \in {"positive", "negative", "neutral"},
        category \in {"general", "verbosity", "explicit"},
        confidence \in 0..100}

\* C20: should_trigger_improvement is true exactly for a negative feedback
\* with a confidence of at least the configured threshold and for a feedback
\* of category explicit; what detect makes of a message matching a negative
\* and no positive pattern is negative with confidence 0.85 and triggers
\* under every threshold up to 0.85; a positive or neutral feedback that is
\* not explicit does not trigger; and process creates a task for triggering
\* feedback only.
C20_TriggerCondition ==
    /\ \A feedback \in FeedbackValues \cup {detect(m) : m \in Messages} :
          /\ should_trigger_improvement(feedback)
                <=> \/ /\ feedback.type = "negative"
                       /\ feedback.confidence >= config.feedback_confidence
                    \/ feedback.category = "explicit"
          /\ (feedback.type \in {"positive", "neutral"}
                 /\ feedback.category # "explicit")
                => ~should_trigger_improvement(feedback)
    /\ \A m \in Messages :
          (m.negative_match /\ ~m.positive_match)
             => /\ detect(m).type = "negative"
                /\ detect(m).confidence = 85
                /\ config.feedback_confidence <= 85
                      => should_trigger_improvement(detect(m))
    /\ task.pc = "pending"
          => \/ /\ task.feedback.type = "negative"
                /\ task.feedback.confidence >= config.feedback_confidence
             \/ task.feedback.category = "explicit"

\* the turn of a message matching a negative pattern only has created the
\* task under the threshold 0.85
C20_Witness ==
    /\ config.feedback_confidence = 85
    /\ task.pc = "pending"
    /\ task.feedback.type = "negative"
    /\ task.feedback.confidence = 85


\* the four checks of validate_prompt, numbered in the order of their issues
ValidateChecks ==
    <<"Prompt too long", "Prompt is empty",
      "Prompt contains template syntax", "Long prompt without clear sections">>

\* the numbers of the checks the prompt q fails
FailingChecks(q) ==
    {i \in 1..4 :
        \/ i = 1 /\ q.len > 16000
        \/ i = 2 /\ q.stripped = 0
        \/ i = 3 /\ q.tmpl
        \/ i = 4 /\ q.len > 500 /\ ~q.sect}

\* C21: validate_prompt returns valid = true exactly with an empty issue
\* list; the list holds one issue for each failing check, in the order too
\* long (above 16,000), empty after trimming, template syntax, long (above
\* 500) without header or emphasis marker; a prompt above the maximum and an
\* empty prompt are invalid with their issue.
C21_ValidatePrompt ==
    validation.done =>
        LET q == validation.prompt
            issues == validation.result.issues
            failing == FailingChecks(q)
        IN  /\ validation.result.valid <=> issues = <<>>
            /\ Len(issues) = Cardinality(failing)
            /\ \A k \in 1..Len(issues) :
                  \E i \in failing :
                      /\ Cardinality({j \in failing : j < i}) = k - 1
                      /\ issues[k] = ValidateChecks[i]
            /\ q.len > 16000
                  => /\ ~validation.result.valid
                     /\ issues[1] = "Prompt too long"
            /\ q.len = 0
                  => /\ ~validation.result.valid
                     /\ issues = <<"Prompt is empty">>

\* validate_prompt has returned for 20,001 blanks: three issues, in order
C21_Witness ==
    /\ validation.done
    /\ validation.prompt.len = 20001
    /\ validation.prompt.stripped = 0
    /\ ~validation.result.valid
    /\ validation.result.issues =
          <<"Prompt too long", "Prompt is empty",
            "Long prompt without clear sections">>


\* C22: a newly created Task is PENDING and not completed; start, complete
\* and block, applied to a task in any status, make it IN_PROGRESS, COMPLETED
\* and BLOCKED; after any sequence of them is_completed is true exactly when
\* the status is COMPLETED.
C22_TaskStatus ==
    /\ \A id \in TaskIds, n \in Ticks :
          LET new == create(id, "Test task", NoText, 0, NoText, n, n)
          IN  new.status = "PENDING" /\ ~is_completed(new)
    /\ plan_task # NoObject =>
          /\ plan_task.status
                \in {"PENDING", "IN_PROGRESS", "COMPLETED", "BLOCKED"}
          /\ is_completed(plan_task) <=> plan_task.status = "COMPLETED"
          /\ \A n \in Ticks :
                /\ start(plan_task, n).status = "IN_PROGRESS"
                /\ ~is_completed(start(plan_task, n))
                /\ complete(plan_task, n, n).status = "COMPLETED"
                /\ is_completed(complete(plan_task, n, n))
                /\ block(plan_task, n).status = "BLOCKED"
                /\ ~is_completed(block(plan_task, n))

\* a task that was completed and then started again is in progress
C22_Witness ==
    /\ plan_task.status = "IN_PROGRESS"
    /\ plan_task.completed_at # NoTime
    /\ ~is_completed(plan_task)

\* C23: for every task reachable by create and any sequence of start,
\* complete and block, Task.from_dict(task.to_dict()) equals the task in
\* id, title, status, created_at and in every other field.
C23_RoundTrip ==
    /\ plan_task # NoObject => from_dict(to_dict(plan_task)) = plan_task
    /\ restored # NoObject =>
          /\ restored.id = plan_task.id
          /\ restored.title = plan_task.title
          /\ restored.status = plan_task.status
          /\ restored.created_at = plan_task.created_at
          /\ restored.description = plan_task.description
          /\ restored.priority = plan_task.priority
          /\ restored.parent_id = plan_task.parent_id
          /\ restored.updated_at = plan_task.updated_at
          /\ restored.completed_at = plan_task.completed_at

\* the round trip of a completed task with a description of None, created
\* on a half second
C23_Witness ==
    /\ restored # NoObject
    /\ restored = plan_task
    /\ plan_task.status = "COMPLETED"
    /\ plan_task.completed_at # NoTime
    /\ plan_task.created_at.microsecond # 0
    /\ plan_task.description = NoText


\* C24: delete(task_id) returns True exactly when a stored task matches
\* task_id; when it returns True, the task get(task_id) returned before the
\* call is no longer listed and every other stored task is still listed
\* unchanged; when it returns False the stored list is unchanged.  Stated of
\* a delete between whose load and save no other call wrote the file.
DeleteReturns(c) ==
    /\ mgr_calls[c].kind = "delete"
    /\ mgr_calls[c].pc # "returned"
    /\ mgr_calls'[c].pc = "returned"
    /\ mgr_calls[c].pc = "save" => mgr_calls[c].loaded = tasks_file

C24_DeleteRemovesOneTask ==
    [][\A c \in Callers :
         DeleteReturns(c) =>
           LET before == _load_all(tasks_file)
               task_id == mgr_calls[c].task_id
               got == get(before, task_id)
               returned == mgr_calls'[c].found
           IN  /\ returned <=>
                     \E i \in 1..Len(before) : Matches(before[i].id, task_id)
               /\ returned =>
                     /\ got.id \notin ListedIds(tasks_file')
                     /\ \A i \in 1..Len(before) :
                           before[i] # got =>
                             \E j \in 1..Len(tasks_file') :
                                 tasks_file'[j] = to_dict(before[i])
               /\ ~returned => tasks_file' = tasks_file]_vars
\* C30: no completed operation is lost when a create interleaves with a
\* complete, start, delete or clear_completed on the same store: once all
\* calls have returned, the store lists every task whose create returned
\* and that no delete removed, and every status change that returned beside
\* a create is still visible.
AllReturned == \A c \in Callers : mgr_calls[c].pc \in {"idle", "returned"}

C30_NoLostOperation ==
    AllReturned =>
      \A c \in Callers :
        /\ mgr_calls[c].kind = "create" /\ mgr_calls[c].pc = "returned" =>
              \/ mgr_calls[c].ret.id \in ListedIds(tasks_file)
              \/ \E d \in Callers :
                    /\ mgr_calls[d].kind = "delete"
                    /\ mgr_calls[d].found
                    /\ Matches(mgr_calls[c].ret.id, mgr_calls[d].task_id)
        /\ /\ mgr_calls[c].kind \in {"complete", "start"}
           /\ mgr_calls[c].pc = "returned"
           /\ mgr_calls[c].found
           /\ \A d \in Callers \ {c} :
                 mgr_calls[d].kind \in {"none", "create"}
           => \E j \in 1..Len(tasks_file) :
                 tasks_file[j] = to_dict(mgr_calls[c].ret)
\* C25: when the backend requests create_prompt_version with a new_prompt
\* that fails validation (and no tool of the batch raises), the tool result
\* fed back carries the issue list, nothing is persisted, the loop does not
\* go on to success, and the loop stays in improve for another backend call.
InvalidCreate(response) ==
    /\ response.stop_reason = "tool_use"
    /\ FirstBlock(response.content, "create_prompt_version") > 0
    /\ ~Valid(SavedBlock(response).prompt)
    /\ \A j \in 1..Len(response.content) :
          ~VersionerToolRaises(response.content[j])

C25_InvalidCreateIsRevisable ==
    [][\A response \in VersionerResponses :
         /\ run.pc = "improve"
         /\ InvalidCreate(response)
         /\ run' = VersionerTurn(run, response)
         => LET i == FirstBlock(response.content, "create_prompt_version")
            IN  /\ run'.pc = "improve"
                /\ Len(run'.results) = Len(response.content)
                /\ run'.results[i].content.error = "Validation failed"
                /\ run'.results[i].content.issues =
                      ValidateIssues(SavedBlock(response).prompt)
                /\ files' = files
                /\ link' = link]_vars
\* C26: for every response that requests tools, the batch appended to the
\* messages holds one tool result per requested call, in the order of the
\* calls, each with the id of its call (the position of the block), whether
\* the tools are terminal, non-terminal or unknown: every tool of the batch
\* is executed, so the turn ends without an exception, and a turn that goes
\* on to the next backend call has appended that batch.
Paired(results, content) ==
    /\ Len(results) = Len(content)
    /\ \A i \in 1..Len(content) : results[i].tool_use_id = i

C26_OneResultPerToolCall ==
    /\ run.pc = "analyze" =>
          \A response \in AnalyzerResponses :
              response.stop_reason = "tool_use" =>
                LET r == AnalyzerTurn(run, response)
                IN  /\ r.exc = NoExc
                    /\ Paired(AnalyzerTools(response.content),
                              response.content)
                    /\ r.pc = "analyze" =>
                          r.results = AnalyzerTools(response.content)
    /\ run.pc = "improve" =>
          \A response \in VersionerResponses :
              response.stop_reason = "tool_use" =>
                LET r == VersionerTurn(run, response)
                IN  /\ r.exc = NoExc
                    /\ Paired(VersionerTools(response.content),
                              response.content)
                    /\ r.pc = "improve" =>
                          r.results = VersionerTools(response.content)
\* C27: a run for target agent A stores its new version under A, whatever
\* agent_name the create_prompt_version input holds: while the
\* create_version call of the run is in progress the version files and the
\* active pointer of every other agent stay as they are, and when improve
\* returns, the new version is a version file of A.
C27_StoredUnderTarget ==
    [][(op.pc # "idle" /\ op.caller = "run") =>
         /\ \A a \in Agents \ {run.target} :
               /\ files'[a] = files[a]
               /\ link'[a] = link[a]
         /\ run'.pc = "version_created" =>
               run'.new_version.version \in VersionsOf(run.target)]_vars
\* C28: once every ManualImprovementOrchestrator.run that was started has
\* returned, in any interleaving of overlapping runs, the shared improvement
\* threshold has the value it had before the first of them started.
C28_ThresholdRestored ==
    (\A i \in ManualRuns : manual[i].pc = "idle")
        => config.improvement_confidence =
               ThresholdConfig.improvement_confidence
\* C29: when improve raised its VersioningError and run has logged the
\* failure, the log holds a versioning_failed event carrying the error,
\* after versioning_started and before improvement_failed.
C29_VersioningFailedLogged ==
    (run.pc = "done" /\ run.exc = NoVersionCreated) =>
        \E i, j, k \in 1..Len(events) :
            /\ i < j
            /\ j < k
            /\ events[i].type = "versioning_started"
            /\ events[j] = Event("versioning_failed", NoVersionCreated.msg)
            /\ events[k].type = "improvement_failed"
====
